---- MODULE Spec2Model ----
(***************************************************************************)
(* A model of the P.56 speech voltmeter of svp56.py (SVP56_state:          *)
(* init_speech_voltmeter, speech_voltmeter, bin_interp) and of the         *)
(* measuring and equalizing run of sv56demo.py.                            *)
(*                                                                         *)
(* Reading of the source.  Identifiers that resolve to nothing in the      *)
(* source (f.max, sqlf.n, T, MIN_LOG_OFFSET, Marnig, math.abs, the second  *)
(* `upcount' parameter, DCleven is kept as written since Python defines    *)
(* it) are read as the names they stand for; every statement keeps the     *)
(* behaviour Python gives it as written: `tol *= 1.0', the expression      *)
(* statement `ActiveSpeechLevel' on line 220, the division by self.n.      *)
(*                                                                         *)
(* Numbers.  The floats of the source are fixed-point integers here:       *)
(*   samples, s, max, maxP, maxN   in units of 1/SampleOne  (2^-13)        *)
(*   sq                            in units of 1/SampleOne^2 (2^-26)       *)
(*   p, q, c[j]                    in units of 1/EnvOne     (2^-24)        *)
(*   g                             in units of 1/QOne       (2^-15)        *)
(*   levels in dB                  in units of 1/DbScale dB (0.001 dB)     *)
(* A value 10^(d/10) or 10^(d/20) is held by its exponent d.               *)
(***************************************************************************)
EXTENDS Integers, Sequences, FiniteSets

(* ------------------------------ bounds -------------------------------- *)

\* the longest sample stream a run feeds to the voltmeter
MaxSamples == 5
\* the longest block handed to one call of speech_voltmeter
MaxBlock == 2
\* the loop of bin_interp is followed for at most this many passes
MaxIter == 24

\* the calls of init_speech_voltmeter on one state object
MaxInits == 2

(* ----------------------------- number units ---------------------------- *)

SampleOne == 2^13
EnvOne == 2^24
EnvPerSample == EnvOne \div SampleOne
QOne == 2^15
ExpOne == 2^20
DbScale == 10^3
MantOne == 2^14
FracBits == 3 * 4

\* the sample values a block is made of: silence, 2^-12, negative full scale
Samples == {0, 2, -SampleOne}
\* the sampling rates a session is initialized with, in Hz
SampleRates == {10, 100}

(* --------------------- constants of SVP56_state ------------------------ *)

\* T = 0.03 s, as the fraction T_num / T_den
T_num == 3
T_den == 100
\* H = 0.20 s, as the fraction H_num / H_den
H_num == 20
H_den == 100
\* M = 15.9 dB
M == 15900
THRES_NO == 15
\* 10 * log10(MIN_LOG_OFFSET) = 10 * log10(1e-20), in dB
MIN_LOG_OFFSET_dB == -200 * DbScale
\* the tolerance 0.5 dB the estimator hands to bin_interp
TolArg == 500
\* ActiveSpeechLevel = -100.0, the value returned for silence
SilenceLevel == -100000
\* NdB = -26 dBov of the demo
NdB == -26000

(* --------------------------- math helpers ------------------------------ *)

\* math.fabs
fabs(x) == IF x < 0 THEN -x ELSE x

\* a * g / QOne for a >= 0 and 0 <= g <= QOne, without leaving 32 bits
MulQ(a, g) == (a \div QOne) * g + ((a % QOne) * g) \div QOne

\* math.exp(-num/den) in units of 1/ExpOne: the series sum (-z)^k / k!
RECURSIVE ExpTerms(_, _, _, _)
ExpTerms(term, k, num, den) ==
    IF term = 0 THEN 0
    ELSE term - ExpTerms((term * num) \div (den * k), k + 1, num, den)

exp_neg(num, den) == ExpTerms(ExpOne, 1, num, den)

RECURSIVE FloorLog2(_)
FloorLog2(n) == IF n < 2 THEN 0 ELSE 1 + FloorLog2(n \div 2)

\* the fraction bits of log2 of a mantissa m in [MantOne, 2*MantOne)
RECURSIVE Log2Frac(_, _)
Log2Frac(m, k) ==
    IF k = 0 THEN 0
    ELSE CHOOSE r \in
            { IF m2 >= 2 * MantOne
              THEN 2^(k - 1) + Log2Frac(m2 \div 2, k - 1)
              ELSE Log2Frac(m2, k - 1) :
              m2 \in {(m * m) \div MantOne} } : TRUE

\* 10 * math.log10(n) for an integer n >= 1, in units of 1/DbScale dB
TenLog10(n) ==
    CHOOSE r \in
        { (30103 * e) \div 10
          + (30103 * Log2Frac(IF e >= 14 THEN n \div 2^(e - 14) ELSE n * 2^(14 - e),
                              FracBits)) \div (10 * 2^FracBits) :
          e \in {FloorLog2(n)} } : TRUE

\* 10 * math.log10(num/den + MIN_LOG_OFFSET), num in units of 1/unit
TenLog10Ratio(num, den, unit) ==
    IF num = 0 THEN MIN_LOG_OFFSET_dB
    ELSE TenLog10(num) - TenLog10(unit) - TenLog10(den)

\* 20 * math.log10(c + MIN_LOG_OFFSET) of a threshold c > 0
TwentyLog10Env(c) == 2 * (TenLog10(c) - TenLog10(EnvOne))

(* ---------------------------- SVP56_state ------------------------------ *)

\* SVP56_state.__init__: the fields of a newly constructed object. DCleven
\* is the attribute line 205 creates; it does not exist before.
NewState ==
    [ f |-> 0, a |-> << >>, c |-> << >>, hang |-> << >>,
      n |-> 0, s |-> 0, sq |-> 0, p |-> 0, q |-> 0, max |-> 0,
      refdB |-> 0, rmsdB |-> 0, maxP |-> 0, maxN |-> 0, DClevel |-> 0,
      ActivityFactor |-> [zero |-> TRUE, dB |-> 0],
      DCleven |-> [set |-> FALSE, v |-> 0] ]

\* I = math.floor(self.H * self.f + 0.5)
HangoverLength(f) == (2 * H_num * f + H_den) \div (2 * H_den)

\* g = math.exp(-1.0 / (self.f * T)), in units of 1/QOne
EnvelopeGain(f) == exp_neg(T_den, T_num * f) \div (ExpOne \div QOne)

\* a changed InsertThresholds: self.c.append(x), the ladder upside down
RECURSIVE InsertThresholds_Appended(_, _, _)
InsertThresholds_Appended(c, x, j) ==
    IF j > THRES_NO THEN c
    ELSE InsertThresholds_Appended(c \o <<x>>, x \div 2, j + 1)

\* for j in range(1, THRES_NO + 1): self.c.insert(0, x); x /= 2.0
RECURSIVE InsertThresholds(_, _, _)
InsertThresholds(c, x, j) ==
    IF j > THRES_NO THEN c
    ELSE InsertThresholds(<<x>> \o c, x \div 2, j + 1)

\* for j in range(0, THRES_NO): self.a.append(0); self.hang.append(I)
RECURSIVE AppendCounts(_, _, _)
AppendCounts(seq, v, j) ==
    IF j >= THRES_NO THEN seq
    ELSE AppendCounts(Append(seq, v), v, j + 1)

init_speech_voltmeter(st, sampl_freq) ==
    [ st EXCEPT
        !.f = sampl_freq,
        !.c = InsertThresholds(st.c, EnvOne \div 2, 1),
        !.a = AppendCounts(st.a, 0, 0),
        !.hang = AppendCounts(st.hang, HangoverLength(sampl_freq), 0),
        !.s = 0, !.sq = 0, !.n = 0, !.p = 0, !.q = 0,
        !.max = 0,
        !.maxP = -32768 * SampleOne,
        !.maxN = 32767 * SampleOne,
        !.refdB = 0 ]

(* --------------------- speech_voltmeter: the sample loop --------------- *)

\* a changed ThresholdStep: self.hang[j] <= I, one sample too many
ThresholdStep_OneMore(q, cj, aj, hj, I) ==
    LET a1 == IF q >= cj THEN aj + 1 ELSE aj
        h1 == IF q >= cj THEN 0 ELSE hj
    IN  IF (q < cj) /\ (h1 <= I) THEN <<a1 + 1, h1 + 1>> ELSE <<a1, h1>>

\* lines 197-202 for one threshold: the new <<a[j], hang[j]>>
ThresholdStep(q, cj, aj, hj, I) ==
    LET a1 == IF q >= cj THEN aj + 1 ELSE aj
        h1 == IF q >= cj THEN 0 ELSE hj
    IN  IF (q < cj) /\ (h1 < I) THEN <<a1 + 1, h1 + 1>> ELSE <<a1, h1>>

\* lines 174-202 for one sample x
SampleStep(st, x, I, g) ==
    LET p1 == MulQ(st.p, g) + MulQ(fabs(x) * EnvPerSample, QOne - g)
        q1 == MulQ(st.q, g) + MulQ(p1, QOne - g)
        upd(k) == ThresholdStep(q1, st.c[k], st.a[k], st.hang[k], I)
    IN  [ st EXCEPT
            !.max = IF fabs(x) > st.max THEN fabs(x) ELSE st.max,
            !.maxP = IF x > st.maxP THEN x ELSE st.maxP,
            !.maxN = IF x < st.maxN THEN x ELSE st.maxN,
            !.sq = st.sq + x * x,
            !.s = st.s + x,
            !.n = st.n + 1,
            !.p = p1,
            !.q = q1,
            !.a = [k \in 1..Len(st.a) |->
                      IF k <= THRES_NO THEN upd(k)[1] ELSE st.a[k]],
            !.hang = [k \in 1..Len(st.hang) |->
                      IF k <= THRES_NO THEN upd(k)[2] ELSE st.hang[k]] ]

\* for k in range(len(buffer)): the state after the loop, and the envelope
\* q after each sample of the buffer
\* q and the counts a after each sample of the buffer
RECURSIVE SampleLoop(_, _, _, _, _)
SampleLoop(acc, buffer, k, I, g) ==
    IF k > Len(buffer) THEN acc
    ELSE CHOOSE r \in
            { SampleLoop([st |-> st1, qs |-> Append(acc.qs, st1.q),
                          as |-> Append(acc.as, st1.a)], buffer, k + 1, I, g) :
              st1 \in {SampleStep(acc.st, buffer[k], I, g)} } : TRUE

(* ------------------------------ bin_interp ----------------------------- *)

\* (a + b) / 2.0
Half(a, b) == (a + b) \div 2

\* tol *= 1.0
RelaxTolerance(tol) == tol * 1

\* a changed BinEnter: the lower endpoint is tested before the upper one
BinEnter_LowerFirst(upcount, lwcount, upthr, lwthr, Margin, tol) ==
    LET tol1 == IF tol < 0 THEN -1 * tol ELSE tol
        b == [ upcount |-> upcount, lwcount |-> lwcount, upthr |-> upthr,
               lwthr |-> lwthr, Margin |-> Margin, tol |-> tol1,
               iterno |-> 1, diff |-> 0,
               midcount |-> 0, midthr |-> 0, pc |-> "done", ret |-> 0 ]
        dup == fabs((upcount - upthr) - Margin)
        dlw == fabs((lwcount - lwthr) - Margin)
    IN  IF dlw < tol1 THEN [b EXCEPT !.diff = dlw, !.ret = lwcount]
        ELSE IF dup < tol1 THEN [b EXCEPT !.diff = dup, !.ret = upcount]
        ELSE [b EXCEPT !.diff = dlw, !.pc = "loop",
                       !.midcount = Half(upcount, lwcount),
                       !.midthr = Half(upthr, lwthr)]

\* lines 95-110: up to the first middle. pc "loop": at the while test.
BinEnter(upcount, lwcount, upthr, lwthr, Margin, tol) ==
    LET tol1 == IF tol < 0 THEN -1 * tol ELSE tol
        b == [ upcount |-> upcount, lwcount |-> lwcount, upthr |-> upthr,
               lwthr |-> lwthr, Margin |-> Margin, tol |-> tol1,
               iterno |-> 1, diff |-> 0,
               midcount |-> 0, midthr |-> 0, pc |-> "done", ret |-> 0 ]
        dup == fabs((upcount - upthr) - Margin)
        dlw == fabs((lwcount - lwthr) - Margin)
    IN  IF dup < tol1 THEN [b EXCEPT !.diff = dup, !.ret = upcount]
        ELSE IF dlw < tol1 THEN [b EXCEPT !.diff = dlw, !.ret = lwcount]
        ELSE [b EXCEPT !.diff = dlw, !.pc = "loop",
                       !.midcount = Half(upcount, lwcount),
                       !.midthr = Half(upthr, lwthr)]

\* lines 113-136: the while test and, when it holds, one pass of the body
BinPass(b) ==
    LET diff == (b.midcount - b.midthr) - b.Margin
    IN  IF ~(fabs(diff) > b.tol)
        THEN [b EXCEPT !.diff = diff, !.pc = "done", !.ret = b.midcount]
        ELSE LET it == b.iterno + 1
                 tol1 == IF it > 20 THEN RelaxTolerance(b.tol) ELSE b.tol
                 b1 == [b EXCEPT !.diff = diff, !.iterno = it, !.tol = tol1]
             IN  IF diff > tol1
                 THEN LET mc == Half(b.upcount, b.midcount)
                          mt == Half(b.upthr, b.midthr)
                      IN  [b1 EXCEPT !.midcount = mc, !.midthr = mt,
                                     !.lwcount = mc, !.lwthr = mt]
                 ELSE IF diff < -1 * tol1
                 THEN LET mc == Half(b.midcount, b.lwcount)
                          mt == Half(b.midthr, b.lwthr)
                      IN  [b1 EXCEPT !.midcount = mc, !.midthr = mt,
                                     !.upcount = mc, !.upthr = mt]
                 ELSE b1

\* a pass that changes nothing but iterno is repeated forever
BinStuck(b) ==
    /\ b.pc = "loop"
    /\ [BinPass(b) EXCEPT !.iterno = b.iterno] = b

\* the whole loop: the record at `return', or the record the loop never leaves
RECURSIVE BinRun(_)
BinRun(b) ==
    IF b.pc = "done" \/ BinStuck(b) THEN b
    ELSE CHOOSE r \in {BinRun(b1) : b1 \in {BinPass(b)}} : TRUE

\* bin_interp: [returns |-> TRUE, ret |-> value], or returns |-> FALSE when
\* the loop never ends
bin_interp(upcount, lwcount, upthr, lwthr, Margin, tol) ==
    CHOOSE r \in
        { [returns |-> b.pc = "done", ret |-> b.ret] :
          b \in { BinRun(b0) :
                  b0 \in {BinEnter(upcount, lwcount, upthr, lwthr, Margin, tol)} } } :
        TRUE

(* ------------------- speech_voltmeter: the estimate -------------------- *)

\* 10 * math.log10(self.sq / self.a[j] + MIN_LOG_OFFSET), j a Python index
AdBOf(st, j) == TenLog10Ratio(st.sq, st.a[j + 1], SampleOne * SampleOne)

\* 20 * math.log10(float(self.c[j]) + MIN_LOG_OFFSET), j a Python index
CdBOf(st, j) == TwentyLog10Env(st.c[j + 1])

\* a changed ScanHit: the comparison with M the other way round
ScanHit_Inverted(st, j) ==
    st.a[j + 1] # 0 /\ AdBOf(st, j) - CdBOf(st, j) >= M

\* lines 225-231: the loop breaks at j
ScanHit(st, j) ==
    st.a[j + 1] # 0 /\ AdBOf(st, j) - CdBOf(st, j) <= M

\* for j in range(1, THRES_NO): the j at which the loop breaks (a[j] != 0
\* and Delta[j] <= M), or THRES_NO when the loop runs to its end
RECURSIVE ScanFrom(_, _)
ScanFrom(st, j) ==
    IF j >= THRES_NO THEN THRES_NO
    ELSE IF ScanHit(st, j) THEN j
    ELSE ScanFrom(st, j + 1)

\* lines 211-220: "returned" when line 213 returns, else "scan". Line 220
\* is an expression statement: the margin test returns nothing.
LowerCounterTest(st) ==
    IF st.a[1] = 0 THEN "returned"
    ELSE IF AdBOf(st, 0) - CdBOf(st, 0) < M THEN "scan"
    ELSE "scan"

\* no call of bin_interp
NoBracket == [upcount |-> 0, lwcount |-> 0, upthr |-> 0, lwthr |-> 0]

\* 10 * math.log10(self.sq / self.n + self.MIN_LOG_OFFSET)
LongTermLevelOf(st) == TenLog10Ratio(st.sq, st.n, SampleOne * SampleOne)

\* a changed Statistics: the mean is stored over the running sum self.s
Statistics_MeanIntoSum(st) ==
    [st EXCEPT !.s = st.s \div st.n,
               !.DCleven = [set |-> TRUE, v |-> (st.s * 2^8) \div st.n],
               !.rmsdB = LongTermLevelOf(st) - st.refdB,
               !.ActivityFactor = [zero |-> TRUE, dB |-> 0]]

\* lines 205-208, for self.n # 0
Statistics(st) ==
    [st EXCEPT !.DCleven = [set |-> TRUE, v |-> (st.s * 2^8) \div st.n],
               !.rmsdB = LongTermLevelOf(st) - st.refdB,
               !.ActivityFactor = [zero |-> TRUE, dB |-> 0]]

\* what speech_voltmeter hands back when it ends without interpolating
Ended(st, outcome) ==
    [state |-> st, outcome |-> outcome, ret |-> SilenceLevel, j |-> 0,
     bracket |-> NoBracket]

\* lines 232-239 at the index j the scan stopped at. AmdB divides by
\* a[j - 1]. outcome "hang": bin_interp never returns.
Interpolate(st, j) ==
    IF st.a[j] = 0 THEN Ended(st, "ZeroDivisionError")
    ELSE CHOOSE e \in
        { IF ~r.returns
          THEN [Ended(st, "hang") EXCEPT !.j = j, !.bracket = br]
          ELSE [state |-> [st EXCEPT !.ActivityFactor =
                              [zero |-> FALSE, dB |-> LongTermLevelOf(st) - r.ret]],
                outcome |-> "returned", ret |-> r.ret, j |-> j, bracket |-> br] :
          br \in {[upcount |-> AdBOf(st, j), lwcount |-> AdBOf(st, j - 1),
                   upthr |-> CdBOf(st, j), lwthr |-> CdBOf(st, j - 1)]},
          r \in {bin_interp(AdBOf(st, j), AdBOf(st, j - 1),
                            CdBOf(st, j), CdBOf(st, j - 1), M, TolArg)} } : TRUE

\* lines 209-242 on the state Statistics left
Level(st) ==
    IF LowerCounterTest(st) = "returned" THEN Ended(st, "returned")
    ELSE CHOOSE e \in
        { IF j >= THRES_NO THEN Ended(st, "returned") ELSE Interpolate(st, j) :
          j \in {ScanFrom(st, 1)} } : TRUE

\* lines 204-242, on the state the sample loop left. outcome: "returned",
\* "ZeroDivisionError" (a division by a zero count) or "hang"; ret: the
\* value returned; j: the index bin_interp was called for, 0 when it was
\* not called; bracket: its arguments.
Estimate(st) ==
    IF st.n = 0 THEN Ended(st, "ZeroDivisionError")
    ELSE CHOOSE e \in {Level(st1) : st1 \in {Statistics(st)}} : TRUE

\* the record speech_voltmeter hands back after the sample loop left acc
AfterLoop(acc) ==
    CHOOSE r \in
        { [state |-> e.state, outcome |-> e.outcome, ret |-> e.ret, j |-> e.j,
           bracket |-> e.bracket, qs |-> acc.qs, as |-> acc.as] :
          e \in {Estimate(acc.st)} } : TRUE

\* speech_voltmeter(buffer) on the state st: the record of Estimate, with
\* the envelope and the counts after each sample of buffer
speech_voltmeter(st, buffer) ==
    CHOOSE r \in
        { AfterLoop(acc) :
          acc \in {SampleLoop([st |-> st, qs |-> << >>, as |-> << >>], buffer, 1,
                              HangoverLength(st.f), EnvelopeGain(st.f))} } : TRUE

(* ------------------------------ the run -------------------------------- *)

VARIABLES
    state,          \* the SVP56_state object of the run
    ActiveLeveldB,  \* sv56demo: the value of the last speech_voltmeter call
    factor,         \* sv56demo: the equalization factor, 10^(dB/20)
    Fo,             \* sv56demo: the equalized samples, Fi * factor
    pc,             \* "measuring", "factor", "done", "crashed", "hung"
    hist,           \* the samples handed to speech_voltmeter so far
    qHist,          \* the envelope q after each of them
    aHist,          \* the counts a after each of them
    last,           \* the last call of speech_voltmeter: how it ended
    binArgs,        \* bin_interp: the arguments of the activation
    bin             \* bin_interp: its locals and its position

vars == <<state, ActiveLeveldB, factor, Fo, pc, hist, qHist, aHist, last,
          binArgs, bin>>

runVars == <<state, ActiveLeveldB, factor, Fo, pc, hist, qHist, aHist, last>>

binVars == <<binArgs, bin>>

\* the blocks a call may be handed: every sequence of at most MaxBlock samples
RECURSIVE SeqsUpTo(_)
SeqsUpTo(n) ==
    IF n = 0 THEN {<< >>}
    ELSE LET shorter == SeqsUpTo(n - 1)
         IN  shorter \cup {Append(b, x) : b \in {s \in shorter : Len(s) = n - 1},
                                           x \in Samples}

Blocks == SeqsUpTo(MaxBlock)

NoCall == [called |-> FALSE, outcome |-> "none", j |-> 0,
           bracket |-> NoBracket]

BinIdle == BinEnter(0, 0, 0, 0, 0, 0)

BinNoArgs == [upcount |-> 0, lwcount |-> 0, upthr |-> 0, lwthr |-> 0, tol |-> 0]

\* sv56demo lines 183-215: the state after SVP56_state() and
\* init_speech_voltmeter(state, sf)
InitRun ==
    /\ \E sf \in SampleRates : state = init_speech_voltmeter(NewState, sf)
    /\ ActiveLeveldB = [none |-> TRUE, v |-> 0]
    /\ factor = [zero |-> TRUE, dB |-> 0]
    /\ Fo = [written |-> FALSE, samples |-> << >>, factor |-> [zero |-> TRUE, dB |-> 0]]
    /\ pc = "measuring"
    /\ hist = << >>
    /\ qHist = << >>
    /\ aHist = << >>
    /\ last = NoCall

Init ==
    /\ InitRun
    /\ binArgs = BinNoArgs
    /\ bin = BinIdle

\* sv56demo line 227: one call ActiveLeveldB = speech_voltmeter(block, state)
SpeechVoltmeter ==
    /\ pc = "measuring"
    /\ \E buffer \in Blocks :
         /\ Len(hist) + Len(buffer) <= MaxSamples
         /\ \E r \in {speech_voltmeter(state, buffer)} :
                /\ state' = r.state
                /\ ActiveLeveldB' = IF r.outcome = "returned"
                                    THEN [none |-> FALSE, v |-> r.ret]
                                    ELSE ActiveLeveldB
                /\ pc' = CASE r.outcome = "returned" -> "measuring"
                           [] r.outcome = "hang" -> "hung"
                           [] OTHER -> "crashed"
                /\ hist' = hist \o buffer
                /\ qHist' = qHist \o r.qs
                /\ aHist' = aHist \o r.as
                /\ last' = [called |-> TRUE, outcome |-> r.outcome, j |-> r.j,
                            bracket |-> r.bracket]
    /\ UNCHANGED <<factor, Fo, binVars>>

\* sv56demo lines 229-234, use_active_level = 1: the factor
\* 10^((DesiredSpeechLeveldB - ActiveLeveldB) / 20); with no block measured
\* ActiveLeveldB is None and the subtraction raises TypeError
ComputeFactor ==
    /\ pc = "measuring"
    /\ IF ActiveLeveldB.none
       THEN /\ pc' = "crashed"
            /\ factor' = factor
       ELSE /\ pc' = "factor"
            /\ factor' = [zero |-> FALSE, dB |-> NdB - ActiveLeveldB.v]
    /\ UNCHANGED <<state, ActiveLeveldB, Fo, hist, qHist, aHist, last, binVars>>

\* sv56demo lines 241-244: Fo = Fi * factor is written out
Equalize ==
    /\ pc = "factor"
    /\ Fo' = [written |-> TRUE, samples |-> hist, factor |-> factor]
    /\ pc' = "done"
    /\ UNCHANGED <<state, ActiveLeveldB, factor, hist, qHist, aHist, last, binVars>>

Next ==
    \/ SpeechVoltmeter
    \/ ComputeFactor
    \/ Equalize

Spec == Init /\ [][Next]_vars

(* ------------------- bin_interp, one pass at a time -------------------- *)

\* the counts (activity levels, dB) and thresholds (dB) bin_interp is tried on
BinCounts == {-32000, -29000, -26300, -24000, -21000}
BinThresholds == {-48000, -42000}
BinTolerances == {500, -500}

InitBin ==
    /\ InitRun
    /\ binArgs \in [upcount : BinCounts, lwcount : BinCounts,
                    upthr : BinThresholds, lwthr : BinThresholds,
                    tol : BinTolerances]
    /\ bin = [BinIdle EXCEPT !.pc = "call"]

\* the call bin_interp(upcount, lwcount, upthr, lwthr, M, tol): lines 95-110
BinCall ==
    /\ bin.pc = "call"
    /\ bin' = BinEnter(binArgs.upcount, binArgs.lwcount, binArgs.upthr,
                       binArgs.lwthr, M, binArgs.tol)
    /\ UNCHANGED <<binArgs, runVars>>

\* the while test of line 113 and one pass of its body
BinLoop ==
    /\ bin.pc = "loop"
    /\ bin.iterno < MaxIter
    /\ bin' = BinPass(bin)
    /\ UNCHANGED <<binArgs, runVars>>

NextBin ==
    \/ BinCall
    \/ BinLoop

SpecBin == InitBin /\ [][NextBin]_vars

(* ------------------------- re-initialization --------------------------- *)

\* init_speech_voltmeter(state, sf) called again on the state object of the
\* run, to start a new measurement: lines 141-164 on the fields as they are.
\* hist, qHist and aHist keep the samples of the whole run.
Reinitialize ==
    /\ pc = "measuring"
    /\ Len(state.c) < MaxInits * THRES_NO
    /\ \E sf \in SampleRates : state' = init_speech_voltmeter(state, sf)
    /\ last' = NoCall
    /\ UNCHANGED <<ActiveLeveldB, factor, Fo, pc, hist, qHist, aHist, binVars>>

NextInit ==
    \/ SpeechVoltmeter
    \/ Reinitialize

SpecInit == Init /\ [][NextInit]_vars

(* ------------------------ what the claims read ------------------------- *)

\* the states in which speech_voltmeter has been called at least once
Called == last.called

\* every sample handed over so far is zero
AllZero == \A i \in 1..Len(hist) : hist[i] = 0

\* the last call returned the silence value and left the activity factor 0
ReturnedSilence ==
    /\ last.outcome = "returned"
    /\ ActiveLeveldB = [none |-> FALSE, v |-> SilenceLevel]
    /\ state.ActivityFactor.zero

\* AdB_j - CdB_j of the accumulated state, j a threshold index 0..14
DeltaAt(j) ==
    TenLog10Ratio(state.sq, state.a[j + 1], SampleOne * SampleOne)
    - TwentyLog10Env(state.c[j + 1])

\* the lowest counter is non-zero and fails the margin test
BelowMargin == state.n > 0 /\ state.a[1] > 0 /\ DeltaAt(0) < M

\* the accumulated state is not silent
NonSilent == state.n > 0 /\ state.a[1] > 0 /\ DeltaAt(0) >= M

\* the indices the scan may stop at
ScanHits == {j \in 1..(THRES_NO - 1) : state.a[j + 1] # 0 /\ DeltaAt(j) <= M}

FirstHit == CHOOSE j \in ScanHits : \A k \in ScanHits : j <= k

\* the counts before sample k + 1: zero before the first
CountsAfter(k) == IF k = 0 THEN [j \in 1..THRES_NO |-> 0] ELSE aHist[k]

Ladder(a) == \A j \in 1..(THRES_NO - 1) : a[j + 1] <= a[j]

\* on sample k the envelope is at or above threshold j (j in 1..15)
Reached(j, k) == qHist[k] >= state.c[j]

\* the last sample up to k on which the envelope reached threshold j, or 0
LastReach(j, k) ==
    IF \E i \in 1..k : Reached(j, i)
    THEN CHOOSE i \in 1..k : Reached(j, i) /\ \A m \in (i + 1)..k : ~Reached(j, m)
    ELSE 0

\* threshold j is active on sample k: reached, or fewer than I samples
\* below it have gone by since it was last reached
Active(j, k) ==
    \/ Reached(j, k)
    \/ /\ LastReach(j, k - 1) > 0
       /\ (k - 1) - LastReach(j, k - 1) < HangoverLength(state.f)

\* speech_voltmeter was entered and never came back
NeverReturned == pc = "hung"

(* ------------------------------- claims -------------------------------- *)

\* C1: from a freshly initialized state, after any number of blocks of any
\* length whose samples are all zero, activityCounts[0] is 0 and the estimate
\* is Silence: the value -100 with activity factor 0.
C1_AllZeroIsSilence ==
    (Called /\ AllZero) => (state.a[1] = 0 /\ ReturnedSilence)

\* the same for streams that hold at least one (zero) sample
C1_NonEmptyAllZeroIsSilence ==
    (Called /\ AllZero /\ Len(hist) > 0) => (state.a[1] = 0 /\ ReturnedSilence)

\* C2: after every sample, no activityCounts[j] is below its value before the
\* sample, and the count of a higher threshold never exceeds the count of the
\* next lower one.
C2_CountsMonotone ==
    /\ Ladder(state.a)
    /\ state.a = CountsAfter(Len(aHist))
    /\ \A k \in 1..Len(aHist) :
          /\ Ladder(aHist[k])
          /\ \A j \in 1..THRES_NO : aHist[k][j] >= CountsAfter(k - 1)[j]

\* a count has grown and the counts differ along the ladder
C2_Witness ==
    /\ Len(aHist) >= 2
    /\ \E j \in 1..(THRES_NO - 1) : state.a[j] > state.a[j + 1] /\ state.a[j + 1] > 0

\* C3: for every valid bracket and every tolerance bin_interp ends after at
\* most 20 bisection passes plus one relaxation pass, and past 20 passes the
\* tolerance has been multiplied by a factor above 1.
BinValidBracket ==
    LET du == (binArgs.upcount - binArgs.upthr) - M
        dl == (binArgs.lwcount - binArgs.lwthr) - M
    IN  (du < 0 /\ dl > 0) \/ (du > 0 /\ dl < 0)

C3_BinInterpTerminates ==
    BinValidBracket =>
        /\ bin.iterno - 1 <= 21
        /\ bin.iterno > 20 => bin.tol > fabs(binArgs.tol)

\* C4: when the lowest counter is non-zero but fails the margin test
\* (A0dB - C0dB < M) the estimator returns Silence at once: no scan result,
\* no call of bin_interp, activity factor 0.
C4_MarginFailureIsSilence ==
    (Called /\ BelowMargin) => (last.j = 0 /\ ReturnedSilence)

\* C5: a call of speech_voltmeter never fails, and a call with an empty block
\* leaves every field of the state as it was, in every reachable state.
CallStep == pc = "measuring" /\ pc' # "factor" /\ last'.called

C5_AccumulateNeverFails ==
    [][CallStep => /\ last'.outcome = "returned"
                   /\ (hist' = hist => state' = state)]_vars

BinUpperAccepts ==
    fabs((binArgs.upcount - binArgs.upthr) - M) < fabs(binArgs.tol)

BinLowerAccepts ==
    fabs((binArgs.lwcount - binArgs.lwthr) - M) < fabs(binArgs.tol)

C7_EndpointShortCircuit ==
    (bin.pc # "call" /\ (BinUpperAccepts \/ BinLowerAccepts)) =>
        /\ bin.pc = "done"
        /\ bin.iterno = 1
        /\ bin.ret = IF BinUpperAccepts THEN binArgs.upcount ELSE binArgs.lwcount

\* both endpoints accept, with different counts
C7_Witness ==
    /\ bin.pc = "done"
    /\ BinUpperAccepts /\ BinLowerAccepts
    /\ binArgs.upcount # binArgs.lwcount

\* C8: when the estimator reported Silence, the equalization factor is not
\* computed from the silence value as a measured level, and no such gain is
\* applied to the samples.
C8_SilenceNotEqualized ==
    (ActiveLeveldB = [none |-> FALSE, v |-> SilenceLevel] /\ last.j = 0) =>
        /\ factor.zero \/ factor.dB # NdB - SilenceLevel
        /\ ~Fo.written \/ Fo.factor.zero \/ Fo.factor.dB # NdB - SilenceLevel

\* C9: for every threshold j and every sample, activityCounts[j] goes up by
\* one exactly when the envelope is at or above thresholds[j], or is below it
\* with fewer than I below-threshold samples since it last reached it; it
\* does not change otherwise.
C9_HangoverCounting ==
    /\ Len(qHist) = Len(aHist)
    /\ \A k \in 1..Len(aHist) : \A j \in 1..THRES_NO :
          aHist[k][j] - CountsAfter(k - 1)[j] = IF Active(j, k) THEN 1 ELSE 0

\* a threshold is reached on sample k, the next I + 1 samples are below it:
\* I of them are counted, the last one is not
C9_Witness ==
    \E j \in 1..THRES_NO : \E k \in 1..Len(qHist) :
        LET I == HangoverLength(state.f)
        IN  /\ k + I + 1 <= Len(qHist)
            /\ Len(qHist) = Len(aHist)
            /\ Reached(j, k)
            /\ \A i \in (k + 1)..(k + I + 1) : ~Reached(j, i)
            /\ aHist[k + I][j] = aHist[k][j] + I
            /\ aHist[k + I + 1][j] = aHist[k + I][j]

C10_FallThrough ==
    /\ Called /\ NonSilent
    /\ ScanHits = {}

\* the last call of speech_voltmeter reached line 236 and called bin_interp
BinInterpCalled == Called /\ last.j > 0

\* the bracket of that call: both counts non-zero, the pair of j - 1 above
\* the margin, the pair of j at or below it
BracketValid ==
    /\ state.a[last.j] # 0
    /\ state.a[last.j + 1] # 0
    /\ (last.bracket.lwcount - last.bracket.lwthr) - M > 0
    /\ (last.bracket.upcount - last.bracket.upthr) - M <= 0

\* C11: every call the estimator makes to bin_interp hands it a valid
\* bracket: for the index j of the call a[j - 1] and a[j] are non-zero, the
\* pair of j - 1 has (AdB - CdB) - M > 0 and the pair of j has
\* (AdB - CdB) - M <= 0, for j = 1 as well as for j > 1.
C11_BracketValid ==
    BinInterpCalled => BracketValid

\* the same for the calls made for an index above 1
C11_BracketValidAboveOne ==
    (BinInterpCalled /\ last.j > 1) => BracketValid

\* bin_interp was called for j = 1 with both endpoint differences negative
C11_InvalidBracket ==
    /\ BinInterpCalled
    /\ last.j = 1
    /\ (last.bracket.lwcount - last.bracket.lwthr) - M < 0
    /\ (last.bracket.upcount - last.bracket.upthr) - M < 0

\* init_speech_voltmeter has returned and speech_voltmeter has not been
\* called since
JustInitialized == ~last.called

\* init_speech_voltmeter was called on a state that had accumulated samples
Reinitialized == JustInitialized /\ Len(hist) > 0

FifteenOfEach ==
    /\ Len(state.c) = THRES_NO
    /\ Len(state.a) = THRES_NO
    /\ Len(state.hang) = THRES_NO

CountsZero == \A j \in 1..Len(state.a) : state.a[j] = 0

HangoversZero == \A j \in 1..Len(state.hang) : state.hang[j] = 0

SumsZero ==
    /\ state.n = 0 /\ state.s = 0 /\ state.sq = 0
    /\ state.p = 0 /\ state.q = 0

\* C12 word for word: 15 of each, every activity count and every hangover
\* count 0, and n, s, sq, p and q 0, after every initialization
C12_InitZeroes ==
    JustInitialized =>
        /\ FifteenOfEach
        /\ CountsZero
        /\ HangoversZero
        /\ SumsZero

\* what holds after the first initialization: 15 of each, the counts and
\* the sums 0, every hangover count I
C12_FirstInit ==
    (JustInitialized /\ Len(hist) = 0 /\ Len(state.c) = THRES_NO) =>
        /\ FifteenOfEach
        /\ CountsZero
        /\ SumsZero
        /\ \A j \in 1..THRES_NO : state.hang[j] = HangoverLength(state.f)

\* C12 without its clause on the hangover counts (line 153 sets them to I,
\* not 0): after init_speech_voltmeter returns, on a newly constructed state
\* or on one that has accumulated samples, the state holds exactly 15
\* thresholds, 15 activity counts and 15 hangover counts, every activity
\* count is 0, and n, s, sq, p and q are 0.
C12_ReinitResets ==
    JustInitialized => (FifteenOfEach /\ CountsZero /\ SumsZero)

\* the sums are reset by every initialization
C12_SumsReset ==
    JustInitialized => SumsZero

\* after a re-initialization: 30 counts, the first of them not zero
C12_CountsKept ==
    /\ Reinitialized
    /\ Len(state.a) = 2 * THRES_NO
    /\ state.a[1] > 0

====
